---- MODULE Spec2Model ----
(***************************************************************************)
(* The Idea aggregate of src/es.js: an event-sourced object that applies   *)
(* local commands optimistically, keeps a snapshot plus the log of events  *)
(* applied since the snapshot, and reconciles batches of server events     *)
(* (confirmations, remote events, rejections) through initializeState.     *)
(*                                                                         *)
(* JavaScript values are modelled as strings; the value undefined is the   *)
(* string "undefined"; null (the absent snapshot) is the empty sequence    *)
(* and a present snapshot is a one-element sequence holding the object.    *)
(***************************************************************************)
EXTENDS Integers, Sequences, FiniteSets, TLC

\* ------------------------------------------------------------- bounds
MaxBatch == 2          \* entries of one batch handed to initializeState
MaxUncommitted == 2    \* pending local events
MaxLog == 3            \* entries of eventsSinceSnapshot
MaxTags == 2           \* entries of tags

\* ------------------------------------------------------------- values
Undefined == "undefined"
InitialIdeaId == "123"
InitialTitle == "1st idea"
Titles == {"A"}              \* titles of local changeTitle commands
RemoteTitles == {"B"}        \* titles of title changes by other actors
TagIds == {"1"}

VARIABLES
    ideaId, title, description, tags,      \* the aggregate's fields
    snapshot, eventsSinceSnapshot,         \* tracking of changes
    uncommittedEvents,                     \* local events awaiting the server
    pc, si,                                \* position in initializeState's loop
    last,                                  \* the operation or entry just executed
    gBase, gApplied, gExpected, gRejected, gDrained, gUnconfirmed,  \* history
    gAuthored, gRejectionSeen, gRemoteBatch

vars == <<ideaId, title, description, tags, snapshot, eventsSinceSnapshot,
          uncommittedEvents, pc, si, last, gBase, gApplied, gExpected,
          gRejected, gDrained, gUnconfirmed, gAuthored, gRejectionSeen,
          gRemoteBatch>>

\* ------------------------------------------------------------- events
Event(type, id, t, d, tag, corr) ==
    [type |-> type, ideaId |-> id, title |-> t, description |-> d,
     tagId |-> tag, correlationId |-> corr]

TitleCorrelationId(newTitle) == "my-ref-title" \o newTitle

TagCorrelationId(tagId) == "my-ref-" \o tagId

HandledTypes ==
    {"IdeaWasCreated", "IdeaTitleWasChanged", "TagWasAddedToAnIdea",
     "FailedThatIdeaTitleWasChanged", "FailedThatTagWasAddedToAnIdea"}

FailedTypes == {"FailedThatIdeaTitleWasChanged", "FailedThatTagWasAddedToAnIdea"}

UnhandledType == "IdeaWasArchived"

CorrelationIds ==
    {TitleCorrelationId(t) : t \in Titles} \cup {TagCorrelationId(g) : g \in TagIds}

\* The events a server batch is drawn from: remote events (no correlationId),
\* echoes of local events (their correlationId), rejections, and an event of
\* a kind the aggregate has no handler for (with no correlationId or with
\* that of a local title change).  data.ideaId is carried by the creation
\* event only: no other handler reads it.
ServerEvents ==
    {Event("IdeaTitleWasChanged", Undefined, t, Undefined, Undefined, Undefined) :
        t \in RemoteTitles} \cup
    {Event("IdeaTitleWasChanged", Undefined, t, Undefined, Undefined,
           TitleCorrelationId(t)) : t \in Titles} \cup
    {Event("TagWasAddedToAnIdea", Undefined, Undefined, Undefined, g, Undefined) :
        g \in TagIds} \cup
    {Event("TagWasAddedToAnIdea", Undefined, Undefined, Undefined, g,
           TagCorrelationId(g)) : g \in TagIds} \cup
    {Event("FailedThatIdeaTitleWasChanged", Undefined, Undefined, Undefined,
           Undefined, c) : c \in {TitleCorrelationId(t) : t \in Titles} \cup {Undefined}} \cup
    {Event("FailedThatTagWasAddedToAnIdea", Undefined, Undefined, Undefined,
           Undefined, TagCorrelationId(g)) : g \in TagIds} \cup
    {Event(UnhandledType, Undefined, Undefined, Undefined, Undefined, c) :
        c \in {TitleCorrelationId(t) : t \in Titles} \cup {Undefined}}

\* ------------------------------------------------------------- helpers
\* Property read of a JavaScript object: a missing property reads undefined.
Get(obj, field) == IF field \in DOMAIN obj THEN obj[field] ELSE Undefined

\* _.reject(list, function (ue) { return ue.correlationId == correlationId; })
RejectByCorrelationId(list, correlationId) ==
    SelectSeq(list, LAMBDA ue : ~(ue.correlationId = correlationId))

\* The aggregate as one record, so that the methods are operators on it.
\* error is set when the method threw; the fields are as the throw left them.
Self ==
    [ideaId |-> ideaId, title |-> title, description |-> description,
     tags |-> tags, snapshot |-> snapshot,
     eventsSinceSnapshot |-> eventsSinceSnapshot,
     uncommittedEvents |-> uncommittedEvents, error |-> FALSE]

\* ------------------------------------------------------------- methods
\* Faulty variant: the event is recorded whether or not a snapshot exists.
recordThat_Always(this, e) == [this EXCEPT !.eventsSinceSnapshot = Append(@, e)]

recordThat(this, e) ==
    IF this.snapshot # <<>>
    THEN [this EXCEPT !.eventsSinceSnapshot = Append(@, e)]
    ELSE this

applyIdeaWasCreated(this, event) ==
    recordThat([this EXCEPT !.ideaId = event.ideaId,
                            !.title = event.title,
                            !.description = event.description], event)

\* Faulty variant: the handler records the event and does not assign the title.
applyIdeaTitleWasChanged_NoAssign(this, event) == recordThat(this, event)

applyIdeaTitleWasChanged(this, event) ==
    recordThat([this EXCEPT !.title = event.title], event)

\* Faulty variant: the handler adds the tag and does not record the event.
applyTagWasAddedToAnIdea_NoRecord(this, event) ==
    [this EXCEPT !.tags = Append(@, event.tagId)]

applyTagWasAddedToAnIdea(this, event) ==
    recordThat([this EXCEPT !.tags = Append(@, event.tagId)], event)

\* Faulty variant: every command takes a new snapshot and resets the log.
createSnapshot_Always(this) ==
    [this EXCEPT
        !.snapshot = <<[id |-> this.ideaId, title |-> this.title,
                        description |-> this.description,
                        tags |-> this.tags]>>,
        !.eventsSinceSnapshot = <<>>]

createSnapshot(this) ==
    IF this.snapshot = <<>>
    THEN [this EXCEPT
            !.snapshot = <<[id |-> this.ideaId, title |-> this.title,
                            description |-> this.description,
                            tags |-> this.tags]>>,
            !.eventsSinceSnapshot = <<>>]
    ELSE this

\* Reading a property of null throws before anything is assigned.
reconstructFromSnapshot(this) ==
    IF this.snapshot = <<>>
    THEN [this EXCEPT !.error = TRUE]
    ELSE [this EXCEPT !.ideaId = Get(this.snapshot[1], "ideaId"),
                      !.title = Get(this.snapshot[1], "title"),
                      !.description = Get(this.snapshot[1], "description"),
                      !.tags = Get(this.snapshot[1], "tags")]

\* Faulty variant: the snapshot is kept when all events are committed.
allEventsCommited_KeepsSnapshot(this) ==
    IF this.snapshot # <<>>
    THEN [reconstructFromSnapshot(this) EXCEPT !.eventsSinceSnapshot = <<>>]
    ELSE this

\* Faulty variant: the log is kept when all events are committed.
allEventsCommited_KeepsLog(this) ==
    IF this.snapshot # <<>>
    THEN [reconstructFromSnapshot(this) EXCEPT !.snapshot = <<>>]
    ELSE this

allEventsCommited(this) ==
    IF this.snapshot # <<>>
    THEN [reconstructFromSnapshot(this) EXCEPT !.snapshot = <<>>,
                                               !.eventsSinceSnapshot = <<>>]
    ELSE this

RECURSIVE initializeState(_, _, _)

\* Faulty variant: the replay also visits the entries its first pass pushed
\* onto the log.
processFailedEvent_VisitsPushed(this, event) ==
    LET removed == [this EXCEPT !.eventsSinceSnapshot =
                        RejectByCorrelationId(@, event.correlationId)]
        restored == reconstructFromSnapshot(removed)
        first == initializeState(restored, restored.eventsSinceSnapshot, TRUE)
    IN  IF restored.error
        THEN restored
        ELSE initializeState(first,
                             SubSeq(first.eventsSinceSnapshot,
                                    Len(restored.eventsSinceSnapshot) + 1,
                                    Len(first.eventsSinceSnapshot)), TRUE)

processFailedEvent(this, event) ==
    LET removed == [this EXCEPT !.eventsSinceSnapshot =
                        RejectByCorrelationId(@, event.correlationId)]
        restored == reconstructFromSnapshot(removed)
    IN  IF restored.error
        THEN restored
        ELSE initializeState(restored, restored.eventsSinceSnapshot, TRUE)

\* Faulty variant: a failing dispatch restores the snapshotted state first.
Dispatch_RollsBackOnError(this, event) ==
    CASE event.type = "IdeaWasCreated" -> applyIdeaWasCreated(this, event)
      [] event.type = "IdeaTitleWasChanged" -> applyIdeaTitleWasChanged(this, event)
      [] event.type = "TagWasAddedToAnIdea" -> applyTagWasAddedToAnIdea(this, event)
      [] event.type \in FailedTypes -> processFailedEvent(this, event)
      [] OTHER -> [reconstructFromSnapshot(this) EXCEPT !.error = TRUE]

\* this['apply' + event.type](event): calling a handler that does not exist throws.
Dispatch(this, event) ==
    CASE event.type = "IdeaWasCreated" -> applyIdeaWasCreated(this, event)
      [] event.type = "IdeaTitleWasChanged" -> applyIdeaTitleWasChanged(this, event)
      [] event.type = "TagWasAddedToAnIdea" -> applyTagWasAddedToAnIdea(this, event)
      [] event.type \in FailedTypes -> processFailedEvent(this, event)
      [] OTHER -> [this EXCEPT !.error = TRUE]

\* Faulty variant: the replay of the log strips the queue as a batch does.
LoopBody_FiltersOnReplay(this, event, fromSnapshot) ==
    LET filtered == [this EXCEPT !.uncommittedEvents =
                         RejectByCorrelationId(@, event.correlationId)]
        applied == Dispatch(filtered, event)
    IN  IF applied.error
        THEN applied
        ELSE IF ~fromSnapshot /\ 0 = Len(applied.uncommittedEvents)
             THEN allEventsCommited(applied)
             ELSE applied

\* One pass of the body of initializeState's loop.
LoopBody(this, event, fromSnapshot) ==
    LET filtered == IF ~fromSnapshot
                    THEN [this EXCEPT !.uncommittedEvents =
                              RejectByCorrelationId(@, event.correlationId)]
                    ELSE this
        applied == Dispatch(filtered, event)
    IN  IF applied.error
        THEN applied
        ELSE IF ~fromSnapshot /\ 0 = Len(applied.uncommittedEvents)
             THEN allEventsCommited(applied)
             ELSE applied

\* for (si in stream): the keys are those the array has when the loop starts,
\* so entries pushed onto the array by the body are not visited.
initializeState(this, stream, fromSnapshot) ==
    IF stream = <<>> \/ this.error
    THEN this
    ELSE initializeState(LoopBody(this, Head(stream), fromSnapshot),
                         Tail(stream), fromSnapshot)

apply(this, event) ==
    LET applied == Dispatch(this, event)
    IN  IF applied.error
        THEN applied
        ELSE [applied EXCEPT !.uncommittedEvents = Append(@, event)]

changeTitle(this, newTitle) ==
    apply(createSnapshot(this),
          Event("IdeaTitleWasChanged", Undefined, newTitle, Undefined,
                Undefined, TitleCorrelationId(newTitle)))

addTag(this, tagId) ==
    apply(createSnapshot(this),
          Event("TagWasAddedToAnIdea", Undefined, Undefined, Undefined,
                tagId, TagCorrelationId(tagId)))

\* ------------------------------------------------------------- history
\* What the properties compare the aggregate with.  gBase is the title and
\* tags the snapshot was taken from and gApplied the events applied since
\* then, less the events a rejection named (both are empty while there is no
\* snapshot).  gExpected is the title and the set of tags that result from
\* applying gApplied, in order, to gBase; once the snapshot is gone it is
\* carried on by the events applied after that.  gUnconfirmed holds the
\* correlationIds pending when initializeState is entered, less those an
\* entry of the stream has confirmed; gRejected tells that an entry of the
\* stream rejected an event that was pending, gDrained that an entry of the
\* stream confirmed the last events that were pending.  gAuthored holds, in
\* the order of the commands, the events local commands authored, less those
\* whose correlationId an entry of a stream has carried since.  gRejectionSeen
\* tells that a rejection was processed since the snapshot was taken,
\* gRemoteBatch that initializeState was entered with no event pending, no
\* snapshot and an empty log and has visited remote events only.
TagSet(list) == {list[i] : i \in 1..Len(list)}

CorrelationIdsOf(list) == {list[i].correlationId : i \in 1..Len(list)}

ExpectedAfter(expected, event) ==
    CASE event.type \in {"IdeaTitleWasChanged", "IdeaWasCreated"} ->
            [expected EXCEPT !.title = event.title]
      [] event.type = "TagWasAddedToAnIdea" ->
            [expected EXCEPT !.tags = @ \cup {event.tagId}]
      [] OTHER -> expected

RECURSIVE ExpectedFrom(_, _)
ExpectedFrom(expected, events) ==
    IF events = <<>>
    THEN expected
    ELSE ExpectedFrom(ExpectedAfter(expected, Head(events)), Tail(events))

Unresolved(authored, correlationId) ==
    LET keep == {i \in 1..Len(authored) : authored[i].correlationId # correlationId}
        RECURSIVE pick(_)
        pick(i) == IF i > Len(authored) THEN <<>>
                   ELSE IF i \in keep THEN <<authored[i]>> \o pick(i + 1)
                   ELSE pick(i + 1)
    IN  pick(1)

\* An event authored by another actor: a state change without correlationId.
IsRemote(event) ==
    /\ event.correlationId = Undefined
    /\ event.type \in HandledTypes \ FailedTypes

Observed(this) == [title |-> this.title, tags |-> TagSet(this.tags)]

\* The history after a step that leaves the aggregate as `this`.
Track(this, base, applied, expected) ==
    /\ gBase' = IF this.snapshot = <<>> THEN <<>> ELSE base
    /\ gApplied' = IF this.snapshot = <<>> THEN <<>> ELSE applied
    /\ gExpected' = expected

\* The history as it stands whenever no call is running.
AtRest(this) ==
    /\ gRejected' = FALSE
    /\ gDrained' = FALSE
    /\ gUnconfirmed' = CorrelationIdsOf(this.uncommittedEvents)

\* ------------------------------------------------------------- state machine
SetSelf(this) ==
    /\ ideaId' = this.ideaId
    /\ title' = this.title
    /\ description' = this.description
    /\ tags' = this.tags
    /\ snapshot' = this.snapshot
    /\ eventsSinceSnapshot' = this.eventsSinceSnapshot
    /\ uncommittedEvents' = this.uncommittedEvents

NoEntry == [op |-> "new", type |-> "", matched |-> FALSE, arg |-> "",
            error |-> FALSE, before |-> "", discarded |-> FALSE]

\* new Idea(123, "1st idea"): the fixture of the test suite.
Init ==
    /\ snapshot = <<>>
    /\ eventsSinceSnapshot = <<>>
    /\ uncommittedEvents = <<>>
    /\ ideaId = InitialIdeaId
    /\ title = InitialTitle
    /\ description = Undefined
    /\ tags = <<>>
    /\ pc = "idle"
    /\ si = 0
    /\ last = NoEntry
    /\ gBase = <<>>
    /\ gApplied = <<>>
    /\ gExpected = [title |-> InitialTitle, tags |-> {}]
    /\ gRejected = FALSE
    /\ gDrained = FALSE
    /\ gUnconfirmed = {}
    /\ gAuthored = <<>>
    /\ gRejectionSeen = FALSE
    /\ gRemoteBatch = FALSE

\* A local command, called while no initializeState is running.  The history
\* starts afresh from the aggregate as it is when the command takes the snapshot.
Command(after, event, op, arg) ==
    /\ pc = "idle"
    /\ Len(uncommittedEvents) < MaxUncommitted
    /\ Len(after.eventsSinceSnapshot) <= MaxLog
    /\ Len(gApplied) < MaxLog
    /\ Len(after.tags) <= MaxTags
    /\ SetSelf(after)
    /\ last' = [op |-> op, type |-> event.type, matched |-> FALSE,
                arg |-> arg, error |-> after.error,
                before |-> IF uncommittedEvents = <<>> THEN title ELSE "",
                discarded |-> FALSE]
    /\ LET base == IF snapshot = <<>> THEN <<Observed(Self)>> ELSE gBase
           applied == Append(gApplied, event)
       IN  Track(after, base, applied, ExpectedFrom(base[1], applied))
    /\ AtRest(after)
    /\ gAuthored' = Append(gAuthored, event)
    /\ gRejectionSeen' = (snapshot # <<>> /\ gRejectionSeen)
    /\ si' = 0
    /\ UNCHANGED <<pc, gRemoteBatch>>

ChangeTitleCommand(newTitle) ==
    Command(changeTitle(Self, newTitle),
            Event("IdeaTitleWasChanged", Undefined, newTitle, Undefined,
                  Undefined, TitleCorrelationId(newTitle)),
            "changeTitle", newTitle)

AddTagCommand(tagId) ==
    Command(addTag(Self, tagId),
            Event("TagWasAddedToAnIdea", Undefined, Undefined, Undefined,
                  tagId, TagCorrelationId(tagId)),
            "addTag", tagId)

\* idea.initializeState(stream) is entered: the loop has visited no entry yet.
InitializeStateBegin ==
    /\ pc = "idle"
    /\ pc' = "loop"
    /\ si' = 0
    /\ gRemoteBatch' = (/\ uncommittedEvents = <<>> /\ snapshot = <<>>
                        /\ eventsSinceSnapshot = <<>>)
    /\ UNCHANGED <<ideaId, title, description, tags, snapshot,
                   eventsSinceSnapshot, uncommittedEvents, last,
                   gBase, gApplied, gExpected, gRejected, gDrained,
                   gUnconfirmed, gAuthored, gRejectionSeen>>

\* The loop visits the next entry of the stream; a throw ends the call and
\* leaves si at the entry that threw.
ForInBody(event) ==
    /\ pc = "loop"
    /\ si < MaxBatch
    /\ LET after == LoopBody(Self, event, FALSE)
           matched == event.correlationId \in CorrelationIdsOf(uncommittedEvents)
           applied == IF gBase = <<>> \/ after.error
                      THEN gApplied
                      ELSE IF event.type \in FailedTypes
                           THEN IF matched
                                THEN RejectByCorrelationId(gApplied,
                                                           event.correlationId)
                                ELSE gApplied
                           ELSE Append(gApplied, event)
           expected == IF after.error
                       THEN gExpected
                       ELSE IF gBase = <<>>
                            THEN ExpectedAfter(gExpected, event)
                            ELSE ExpectedFrom(gBase[1], applied)
       IN  /\ Len(after.eventsSinceSnapshot) <= MaxLog
           /\ Len(applied) <= MaxLog
           /\ Len(after.tags) <= MaxTags
           /\ SetSelf(after)
           /\ gAuthored' = Unresolved(gAuthored, event.correlationId)
           /\ gRemoteBatch' = (gRemoteBatch /\ ~after.error /\ IsRemote(event))
           /\ gRejectionSeen' =
                (/\ after.snapshot # <<>>
                 /\ (gRejectionSeen \/ (event.type \in FailedTypes /\ ~after.error)))
           /\ last' = [op |-> IF after.error THEN "initializeState" ELSE "entry",
                       type |-> event.type, matched |-> matched,
                       arg |-> "", error |-> after.error,
                       before |-> IF gRemoteBatch /\ IsRemote(event) /\ si > 0
                                  THEN title ELSE "",
                       discarded |-> (snapshot # <<>> /\ after.snapshot = <<>>)]
           /\ IF after.error
              THEN /\ pc' = "idle"
                   /\ si' = si
                   /\ Track(after, gBase, applied,
                            IF after.snapshot = <<>> THEN Observed(after)
                            ELSE expected)
                   /\ AtRest(after)
              ELSE /\ pc' = "loop"
                   /\ si' = si + 1
                   /\ Track(after, gBase, applied, expected)
                   /\ gRejected' = (gRejected \/ (event.type \in FailedTypes /\ matched))
                   /\ gDrained' = (gDrained \/ (event.type \notin FailedTypes /\ matched
                                                /\ after.uncommittedEvents = <<>>))
                   /\ gUnconfirmed' =
                        IF event.type \in FailedTypes
                        THEN gUnconfirmed
                        ELSE gUnconfirmed \ {event.correlationId}

\* The stream has no further entry: initializeState returns.
ForInExit ==
    /\ pc = "loop"
    /\ pc' = "idle"
    /\ si' = 0
    /\ last' = [NoEntry EXCEPT !.op = "initializeState"]
    /\ gExpected' = IF snapshot = <<>> THEN Observed(Self) ELSE gExpected
    /\ AtRest(Self)
    /\ gRemoteBatch' = FALSE
    /\ UNCHANGED <<ideaId, title, description, tags, snapshot,
                   eventsSinceSnapshot, uncommittedEvents, gBase, gApplied,
                   gAuthored, gRejectionSeen>>

Next ==
    \/ \E newTitle \in Titles : ChangeTitleCommand(newTitle)
    \/ \E tagId \in TagIds : AddTagCommand(tagId)
    \/ InitializeStateBegin
    \/ \E event \in ServerEvents : ForInBody(event)
    \/ ForInExit

Spec == Init /\ [][Next]_vars

\* Batches of events of the kinds the aggregate handles (confirmations,
\* remote events, rejections).  A batch is finite: the loop of
\* initializeState, unless a throw ends it, comes to the end of the stream.
HandledEvents == {e \in ServerEvents : e.type \in HandledTypes}

NextHandled ==
    \/ \E newTitle \in Titles : ChangeTitleCommand(newTitle)
    \/ \E tagId \in TagIds : AddTagCommand(tagId)
    \/ InitializeStateBegin
    \/ \E event \in HandledEvents : ForInBody(event)
    \/ ForInExit

SpecLive == Init /\ [][NextHandled]_vars /\ WF_vars(ForInExit)

\* The aggregate as a follower of other actors: the batches hold remote
\* events and confirmations only, and the remote events carry two titles, so
\* that the order of the title changes of one batch shows in the result.
FollowedTitles == RemoteTitles \cup {"C"}

FollowedEvents ==
    {e \in ServerEvents : e.type \in HandledTypes \ FailedTypes} \cup
    {Event("IdeaTitleWasChanged", Undefined, t, Undefined, Undefined, Undefined) :
        t \in FollowedTitles}

NextFollower ==
    \/ \E newTitle \in Titles : ChangeTitleCommand(newTitle)
    \/ \E tagId \in TagIds : AddTagCommand(tagId)
    \/ InitializeStateBegin
    \/ \E event \in FollowedEvents : ForInBody(event)
    \/ ForInExit

SpecFollower == Init /\ [][NextFollower]_vars

\* ------------------------------------------------------------- properties
\* initializeState has visited at least one entry and can return here: the
\* aggregate is as a batch made of the entries visited so far leaves it.
BatchVisited == pc = "loop" /\ si > 0

\* C1 (rollback correctness): once a batch that rejects a pending local event
\* has been reconciled, the title and the tags are those obtained by applying
\* to the snapshotted state, in order, every event applied since the snapshot
\* except the rejected one.
C1_RollbackCorrectness ==
    (BatchVisited /\ gRejected) => Observed(Self) = gExpected

\* C2 (discarding the snapshot keeps the state): when a batch confirms the last
\* pending local events, the title and the tags after it are those produced by
\* the applied events, not those of the snapshot.
C2_DiscardKeepsState ==
    (BatchVisited /\ gDrained /\ ~gRejected) => Observed(Self) = gExpected

\* C3 (queue drain): after local commands and a batch holding a confirming
\* event for every pending local event, the uncommitted queue is empty and
\* there is no snapshot.  (With an event pending such a batch has an entry.)
C3_QueueDrain ==
    (BatchVisited /\ gUnconfirmed = {}) =>
        (uncommittedEvents = <<>> /\ snapshot = <<>>)

\* C3's case: two local commands, then a batch of two entries that confirms
\* the last pending events.
C3_Witness ==
    /\ pc = "loop" /\ si = 2
    /\ gDrained /\ ~gRejected /\ gUnconfirmed = {}
    /\ last.op = "entry" /\ last.matched
    /\ uncommittedEvents = <<>> /\ snapshot = <<>>

\* C4 (identifier stability): the identifier is the one the aggregate was
\* created with, whatever commands and batches it has seen.
C4_IdentifierStable == ideaId = InitialIdeaId

\* C5 (idempotent tag insertion): the tags hold no tag twice.
C5_TagsHoldNoDuplicate == Cardinality(TagSet(tags)) = Len(tags)

\* C6 (local changes are visible at once): right after changeTitle(X) the
\* title is X and right after addTag(t) the tags hold t, with no batch
\* reconciled in between.
C6_LocalChangeVisible ==
    /\ last.op = "changeTitle" => (~last.error /\ title = last.arg)
    /\ last.op = "addTag" =>
          (~last.error /\ \E i \in 1..Len(tags) : tags[i] = last.arg)

\* C6's case: a title changed while another local event is still pending.
C6_Witness ==
    /\ pc = "idle" /\ last.op = "changeTitle" /\ last.before = ""
    /\ title = last.arg /\ Len(uncommittedEvents) = 2

\* The step in which initializeState's loop visits an entry of one of `types`.
VisitsEntry(types) == pc = "loop" /\ last'.type \in types

SelfUnchanged ==
    UNCHANGED <<ideaId, title, description, tags, snapshot,
                eventsSinceSnapshot, uncommittedEvents>>

\* C7 (rejecting the only pending event): when exactly one local event is
\* pending and a batch made of the rejection that names it is reconciled, the
\* uncommitted queue and the log are empty and there is no snapshot.
C7_RejectOnlyPending ==
    [][(/\ VisitsEntry(FailedTypes) /\ si = 0
        /\ Len(uncommittedEvents) = 1 /\ last'.matched)
       => (/\ ~last'.error
           /\ uncommittedEvents' = <<>>
           /\ snapshot' = <<>>
           /\ eventsSinceSnapshot' = <<>>)]_vars

\* C7's case: the first entry of a batch rejected the one pending event.
C7_Witness ==
    /\ pc = "loop" /\ si = 1 /\ last.op = "entry"
    /\ last.type \in FailedTypes /\ last.matched
    /\ gRejected /\ Cardinality(gUnconfirmed) = 1
    /\ uncommittedEvents = <<>> /\ snapshot = <<>>

\* C8 (change, then reject, is the identity on the title): changeTitle(X) on an
\* aggregate with no pending local event, followed at once by the batch made of
\* the rejection of that change, leaves the title as it was before the change.
C8_ChangeThenRejectKeepsTitle ==
    [][(/\ VisitsEntry(FailedTypes) /\ si = 0
        /\ last.op = "changeTitle" /\ last.before # "" /\ last'.matched)
       => title' = last.before]_vars

\* C9 (a rejection naming no pending event is skipped): it raises no error and
\* leaves title, tags, identifier, queue, snapshot and log as they were.
C9_UnknownRejectionSkipped ==
    [][(VisitsEntry(FailedTypes) /\ ~last'.matched)
       => (~last'.error /\ SelfUnchanged)]_vars

\* C10 (an event of a kind without handler fails and mutates nothing): title,
\* tags, queue, snapshot and log are after the failure as they were just
\* before the event was processed.
C10_UnhandledKindMutatesNothing ==
    [][VisitsEntry({UnhandledType})
       => (/\ last'.error
           /\ UNCHANGED <<title, tags, uncommittedEvents, snapshot,
                          eventsSinceSnapshot>>)]_vars

\* C11 (uncommitted-queue invariant): the queue holds exactly the locally
\* authored events whose correlationId no entry of a reconciled batch has
\* carried since, in the order they were authored; an entry that matches no
\* queued event and the replay after a rejection leave the queue as it was.
C11_QueueHoldsUnresolved == uncommittedEvents = gAuthored

\* C11's case: of two pending events a batch rejected one, the log was
\* replayed, and the other event is still queued.
C11_Witness ==
    /\ pc = "loop" /\ gRejected /\ last.type \in FailedTypes /\ last.matched
    /\ Len(uncommittedEvents) = 1 /\ snapshot # <<>>
    /\ eventsSinceSnapshot # <<>>

\* C12 (log tracking): while a snapshot exists and no rejection has been
\* processed since it was taken, the events-since-snapshot log is the sequence
\* of all events applied since the snapshot, local and remote, in order; so
\* after the first local command and n further applied events the log has
\* length n + 1.
C12_LogTracksApplied ==
    (snapshot # <<>> /\ ~gRejectionSeen) => eventsSinceSnapshot = gApplied

\* C12's case: the first local command, then a batch with a remote tag and a
\* remote title change, the local event still pending.
C12_Witness ==
    /\ snapshot # <<>> /\ ~gRejectionSeen
    /\ pc = "loop" /\ si = 2 /\ Len(uncommittedEvents) = 1
    /\ Len(eventsSinceSnapshot) = 3
    /\ eventsSinceSnapshot[1].correlationId # Undefined
    /\ eventsSinceSnapshot[2].type = "TagWasAddedToAnIdea"
    /\ eventsSinceSnapshot[2].correlationId = Undefined
    /\ eventsSinceSnapshot[3].correlationId = Undefined

\* C13 (remote batches are applied in batch order on a confirmed aggregate):
\* with no local event pending, no snapshot and an empty log, a batch of
\* remote events leaves the title of its last title change (the old title if
\* it has none) and the old tags plus every tag it adds, and the queue stays
\* empty, the snapshot none and the log empty.
C13_RemoteBatchInOrder ==
    (pc = "loop" /\ gRemoteBatch) =>
        /\ Observed(Self) = gExpected
        /\ uncommittedEvents = <<>>
        /\ snapshot = <<>>
        /\ eventsSinceSnapshot = <<>>

\* C13's case: a batch of two remote title changes with different titles.
C13_Witness ==
    /\ pc = "loop" /\ si = 2 /\ gRemoteBatch
    /\ last.type = "IdeaTitleWasChanged" /\ last.before \in FollowedTitles
    /\ title \in FollowedTitles /\ title # last.before

\* C14 (replay after a rejection is read-only against the log and the queue):
\* when a rejection of a pending event E is reconciled and another local
\* event stays pending, the log afterwards is the log before without E's
\* entry, nothing duplicated or appended, and the queue afterwards is the
\* queue before without E's entry.
C14_ReplayIsReadOnly ==
    [][(/\ VisitsEntry(FailedTypes) /\ last'.matched
        /\ uncommittedEvents' # <<>>)
       => \E c \in CorrelationIdsOf(uncommittedEvents) :
             /\ eventsSinceSnapshot' = Unresolved(eventsSinceSnapshot, c)
             /\ uncommittedEvents' = Unresolved(uncommittedEvents, c)
             /\ uncommittedEvents' # uncommittedEvents]_vars

\* C15 (discard happens only at the end of a batch): the snapshot and the log
\* are never cleared between two entries of a batch, so that after an entry
\* during which they were cleared initializeState visits no further entry.
C15_DiscardOnlyAtBatchEnd ==
    [][(pc = "loop" /\ last.op = "entry" /\ last.discarded)
       => last'.type = ""]_vars

\* C16 (fail-fast reconciliation): when the processing of the k-th entry of a
\* batch raises an error, the error reaches the caller, no later entry is
\* processed, and what the entries before it did to title, tags, queue and
\* log stays in place: the failing step rolls none of it back.
C16_FailFast ==
    [][(pc = "loop" /\ last'.error)
       => (/\ pc' = "idle" /\ last'.op = "initializeState"
           /\ title' = title /\ tags' = tags
           /\ eventsSinceSnapshot' = eventsSinceSnapshot
           /\ \E c \in CorrelationIds \cup {Undefined} :
                 uncommittedEvents' = Unresolved(uncommittedEvents, c))]_vars

\* C16's case: the second entry of a batch threw after the first entry, a
\* remote title change, had been applied while a local event was pending.
C16_Witness ==
    /\ pc = "idle" /\ last.error /\ last.op = "initializeState" /\ si = 1
    /\ snapshot # <<>> /\ title \in RemoteTitles
    /\ Len(eventsSinceSnapshot) = 2
    /\ eventsSinceSnapshot[2].type = "IdeaTitleWasChanged"
    /\ eventsSinceSnapshot[2].correlationId = Undefined

\* The step of a local command.
CommandStep ==
    pc = "idle" /\ pc' = "idle" /\ last'.op \in {"changeTitle", "addTag"}

\* C17 (single, immutable snapshot): the snapshot is taken by the first local
\* command issued while there is none and holds the title, description and
\* tags the aggregate had just before that command; while it exists no
\* operation changes or replaces it, and a local command issued while it
\* exists does not reset the log.
C17_SnapshotImmutable ==
    [][/\ (snapshot = <<>> /\ snapshot' # <<>>)
            => (/\ CommandStep
                /\ snapshot'[1].title = title
                /\ snapshot'[1].description = description
                /\ snapshot'[1].tags = tags)
       /\ (snapshot # <<>> /\ snapshot' # <<>>) => snapshot' = snapshot
       /\ (snapshot # <<>> /\ CommandStep)
            => (/\ snapshot' = snapshot
                /\ Len(eventsSinceSnapshot') = Len(eventsSinceSnapshot) + 1
                /\ SubSeq(eventsSinceSnapshot', 1, Len(eventsSinceSnapshot))
                      = eventsSinceSnapshot)]_vars

\* C17's case: a local command issued while the snapshot exists, after a
\* rejection with its rollback and replay.
C17_Witness ==
    /\ pc = "idle" /\ last.op = "addTag" /\ gRejectionSeen
    /\ snapshot # <<>> /\ snapshot[1].title = InitialTitle
    /\ snapshot[1].tags = <<>> /\ Len(tags) = 2
    /\ Len(eventsSinceSnapshot) = 3

Confirmed ==
    snapshot = <<>> /\ eventsSinceSnapshot = <<>> /\ uncommittedEvents = <<>>

Pending == snapshot # <<>> /\ uncommittedEvents # <<>>

\* C18 (two-state invariant): after every operation that has completed
\* (changeTitle, addTag, initializeState of an empty or a non-empty batch) the
\* aggregate is Confirmed (no snapshot, empty log, empty queue) or Pending (a
\* snapshot and a non-empty queue): no snapshot with an empty queue, no
\* queued event without snapshot, no logged event without snapshot.
C18_TwoStates == (pc = "idle" /\ ~last.error) => (Confirmed \/ Pending)

\* The tags and the title that applying `events` in order yields.
TagsAfter(list, events) ==
    list \o SelectSeq([i \in 1..Len(events) |-> events[i].tagId],
                      LAMBDA g : g # Undefined)

RECURSIVE TitleAfter(_, _)
TitleAfter(t, events) ==
    IF events = <<>> THEN t
    ELSE TitleAfter(IF Head(events).type = "IdeaTitleWasChanged"
                    THEN Head(events).title ELSE t, Tail(events))

C20_CommandNeedsCreated ==
    [][CommandStep
       => (/\ last'.error
           /\ UNCHANGED <<title, tags, uncommittedEvents, snapshot,
                          eventsSinceSnapshot>>)]_vars

====
